---- MODULE Spec2Model ----
(***************************************************************************)
(* A model of babyseg's configuration utilities (babyseg/config.py: load,  *)
(* build, argparse, env), checkpoint utilities (babyseg/state.py: load,    *)
(* save, path, epoch, list), sharding (babyseg/data.py: slurm_map) and     *)
(* command line tools (docker/entrypoint.py, docker/wrapper.py).           *)
(*                                                                         *)
(* JSON / Python values are tagged records, so that isinstance tests are   *)
(* tests of the tag:                                                       *)
(*   [t |-> "none"]              None                                      *)
(*   [t |-> "bool", b |-> ...]   True / False                              *)
(*   [t |-> "int",  n |-> ...]   an int                                    *)
(*   [t |-> "str",  s |-> ...]   a str                                     *)
(*   [t |-> "list", q |-> ...]   a list / tuple                            *)
(*   [t |-> "dict", m |-> ...]   a dict; m is a function from its keys     *)
(* A dict body (the m of a dict value, or a whole document) is a TLA+      *)
(* function whose DOMAIN is the dict's key set.                            *)
(***************************************************************************)
EXTENDS Integers, Sequences, FiniteSets, TLC

VARIABLES
    cfg_pc,      \* config.load: position ("start", "loop", "done", "error")
    cfg_out,     \* config.load: the accumulator `out`
    cfg_last,    \* config.load: the document folded in by the last merge
    cfg_files,   \* config.load: the `files` read so far, in argument order
    cfg_read,    \* config.load: what json.load gave for the file read last
    cfg_exc      \* config.load: the exception load raised, "none" if none

cfg_vars == <<cfg_pc, cfg_out, cfg_last, cfg_files, cfg_read, cfg_exc>>

VARIABLES
    bld_spec,    \* config.build: the entry `f` as the configuration holds it
    bld_call,    \* config.build: the last call (the entry before it, the extras)
    bld_res      \* config.build: what the last call returned or raised

bld_vars == <<bld_spec, bld_call, bld_res>>

VARIABLES
    st_pad,      \* state: the width conf['checkpoint']['path'] pads the epoch to
    st_disk,     \* state: the checkpoint files of the experiment, path -> content
    st_dir,      \* state: whether the checkpoint directory exists
    st_live,     \* state: the state of each component (model, optimizer) in memory
    st_saved,    \* state: per checkpoint, the components' state at its last save
    st_call,     \* state: the last call (operation and arguments)
    st_ret       \* state: what the last call returned or raised

st_vars == <<st_pad, st_disk, st_dir, st_live, st_saved, st_call, st_ret>>

VARIABLES
    opt_conf,    \* config.argparse: the configuration the options are added into
    opt_call,    \* config.argparse: the last call (configuration before, option)
    opt_res      \* config.argparse: what the last call returned or raised

opt_vars == <<opt_conf, opt_call, opt_res>>

VARIABLES
    env_cache,   \* config.env: the module's `_cache`
    env_world,   \* config.env: what the environment is like (date, repository)
    env_call,    \* config.env: the last call (the `test` argument, the world)
    env_ret      \* config.env: what the last call returned or raised

env_vars == <<env_cache, env_world, env_call, env_ret>>

VARIABLES
    cli_call,    \* entrypoint.main: the command line of the last run
    cli_ret      \* entrypoint.main: exit status, messages, what was loaded

cli_vars == <<cli_call, cli_ret>>

VARIABLES
    wrp_host,    \* wrapper.py: the host (tool found, SIF folder and file, exit codes)
    wrp_pc,      \* wrapper.py: position in the script
    wrp_log,     \* wrapper.py: the calls of the container tool, in order
    wrp_exit     \* wrapper.py: the exit code, -1 while running

wrp_vars == <<wrp_host, wrp_pc, wrp_log, wrp_exit>>

VARIABLES
    map_job,     \* data.slurm_map: the samples and the number of workers
    map_out      \* data.slurm_map: per worker id, what its call returned

map_vars == <<map_job, map_out>>

ext_vars == <<opt_vars, env_vars, cli_vars, wrp_vars, map_vars>>

vars == <<cfg_vars, bld_vars, st_vars, ext_vars>>

----------------------------------------------------------------------------
(* Values *)

NoneV == [t |-> "none"]
PyBool(b) == [t |-> "bool", b |-> b]
PyInt(n) == [t |-> "int", n |-> n]
PyStr(s) == [t |-> "str", s |-> s]
PyList(q) == [t |-> "list", q |-> q]
PyDict(m) == [t |-> "dict", m |-> m]

EmptyDict == <<>>

\* isinstance(x, dict)
IsDict(x) == x.t = "dict"

\* Python truthiness of a value.
Truthy(x) ==
    CASE x.t = "none" -> FALSE
      [] x.t = "bool" -> x.b
      [] x.t = "int"  -> x.n # 0
      [] x.t = "str"  -> x.s # ""
      [] x.t = "list" -> Len(x.q) > 0
      [] x.t = "dict" -> DOMAIN x.m # {}

\* d.get(k): the value at k, None when k is absent.
Get(d, k) == IF k \in DOMAIN d THEN d[k] ELSE NoneV

\* d.pop(k, False): the value removed ...
PopValue(d, k) == IF k \in DOMAIN d THEN d[k] ELSE PyBool(FALSE)

\* ... and the dict that is left.
PopRest(d, k) == [j \in DOMAIN d \ {k} |-> d[j]]

\* d.setdefault(k, v) / d[k] = v, as the dict that results.
SetDefault(d, k, v) == IF k \in DOMAIN d THEN d ELSE (k :> v) @@ d
SetItem(d, k, v) == (k :> v) @@ d

----------------------------------------------------------------------------
(* Bounds of the configuration documents *)

MaxInt == 2      \* JSON numbers are 1..MaxInt
MaxDocs == 2     \* at most MaxDocs files are given to load

\* All dicts over a subset of the keys K, the value at k drawn from V(k).
Dicts(K, V(_)) ==
    UNION { { f \in [S -> UNION {V(k) : k \in S}] : \A k \in S : f[k] \in V(k) }
            : S \in SUBSET K }

Ints == {PyInt(n) : n \in 1..MaxInt}
ClearVals == {PyBool(TRUE), PyBool(FALSE)}

Level2Vals(k) == IF k = "clear" THEN ClearVals ELSE Ints
Level2 == Dicts({"y", "clear"}, Level2Vals)

Level1Vals(k) == IF k = "clear" THEN ClearVals ELSE Ints \cup {PyDict(d) : d \in Level2}
Level1 == Dicts({"x", "clear"}, Level1Vals)

CacheVals ==
    {PyInt(1), PyDict([name |-> PyStr("saved")]),
     PyDict([names |-> PyList(<<PyStr("old")>>)])}

RootVals(k) == IF k = "cache" THEN CacheVals ELSE Ints \cup {PyDict(d) : d \in Level1}

\* The JSON objects a file may hold.
Docs == Dicts({"a", "cache"}, RootVals)

\* What json.load may return: an object, or something else.
JsonValues == {PyDict(d) : d \in Docs} \cup {PyStr("this is a string")}

\* The i-th path given to load, and pathlib's `stem` of a path.
FilePath(i) == IF i = 1 THEN "exp/one.json" ELSE "two.json"
Stem(p) == IF p = "exp/one.json" THEN "one" ELSE "two"

----------------------------------------------------------------------------
(* config.load *)

\* read(path): the parsed JSON must be a dict, else ValueError.
read_ok(j) == IsDict(j)

\* read(path) taking a file that holds no dict for an empty one.
read_skips_invalid(j) == [exc |-> "none", d |-> IF IsDict(j) THEN j.m ELSE EmptyDict]

\* read(path), given what json.load returns: the dict, or the exception.
read(j) == IF read_ok(j) THEN [exc |-> "none", d |-> j.m] ELSE [exc |-> "ValueError"]

RECURSIVE merge(_, _)

\* merge's loop body with the override test requiring BOTH values to be
\* non-dicts: a dict already at k survives an incoming non-dict.
merge_item_keeps_dict(old, k, v) ==
    IF ~IsDict(v)
    THEN IF IsDict(Get(old, k)) THEN old[k] ELSE v
    ELSE IF ~IsDict(Get(old, k))
         THEN v
         ELSE IF Truthy(PopValue(v.m, "clear"))
              THEN PyDict(PopRest(v.m, "clear"))
              ELSE PyDict(merge(old[k].m, PopRest(v.m, "clear")))

\* merge's loop body with a shallow update in place of the recursive call.
merge_item_shallow(old, k, v) ==
    IF ~IsDict(Get(old, k)) \/ ~IsDict(v)
    THEN v
    ELSE IF Truthy(PopValue(v.m, "clear"))
         THEN PyDict(PopRest(v.m, "clear"))
         ELSE PyDict(PopRest(v.m, "clear") @@ old[k].m)

\* One iteration of merge's loop: the value old[k] holds after `k, v` of new.
merge_item(old, k, v) ==
    IF ~IsDict(Get(old, k)) \/ ~IsDict(v)
    THEN v
    ELSE IF Truthy(PopValue(v.m, "clear"))
         THEN PyDict(PopRest(v.m, "clear"))
         ELSE PyDict(merge(old[k].m, PopRest(v.m, "clear")))

\* merge(old, new): old after the loop over new.items().
merge(old, new) ==
    [k \in DOMAIN old \cup DOMAIN new |->
        IF k \in DOMAIN new THEN merge_item(old, k, new[k]) ELSE old[k]]

\* names.append(f.stem) for each file.
names(files) == [i \in 1..Len(files) |-> PyStr(Stem(files[i]))]

\* "Track files read" with cache['name'] assigned like names and files.
track_overwrites_name(out, files) ==
    LET c0 == SetDefault(out, "cache", PyDict(EmptyDict))
        c1 == SetItem(c0["cache"].m, "name", names(files)[1])
        c2 == SetItem(c1, "names", PyList(names(files)))
        c3 == SetItem(c2, "files", PyList([i \in 1..Len(files) |-> PyStr(files[i])]))
    IN  SetItem(c0, "cache", PyDict(c3))

\* "Track files read": out after the block, given that out['cache'] is a dict.
track(out, files) ==
    LET c0 == SetDefault(out, "cache", PyDict(EmptyDict))
        c1 == SetDefault(c0["cache"].m, "name", names(files)[1])
        c2 == SetItem(c1, "names", PyList(names(files)))
        c3 == SetItem(c2, "files", PyList([i \in 1..Len(files) |-> PyStr(files[i])]))
    IN  SetItem(c0, "cache", PyDict(c3))

\* out = read(qualify_path(DEFAULTS))
LoadBegin ==
    /\ cfg_pc = "start"
    /\ \E j \in JsonValues :
        \E r \in {read(j)} :
          /\ cfg_read' = j
          /\ cfg_exc' = r.exc
          /\ IF r.exc = "none"
             THEN /\ cfg_out' = r.d
                  /\ cfg_pc' = "loop"
             ELSE /\ cfg_out' = cfg_out
                  /\ cfg_pc' = "error"
    /\ UNCHANGED <<cfg_last, cfg_files, bld_vars, st_vars, ext_vars>>

\* One iteration of `for f in map(qualify_path, files)`.
LoadFile ==
    /\ cfg_pc = "loop"
    /\ Len(cfg_files) < MaxDocs
    /\ UNCHANGED <<bld_vars, st_vars, ext_vars>>
    /\ \E j \in JsonValues :
        \E r \in {read(j)} :
          /\ cfg_files' = Append(cfg_files, FilePath(Len(cfg_files) + 1))
          /\ cfg_read' = j
          /\ cfg_exc' = r.exc
          /\ IF r.exc = "none"
             THEN /\ cfg_last' = r.d
                  /\ cfg_out' = merge(cfg_out, r.d)
                  /\ cfg_pc' = "loop"
             ELSE /\ UNCHANGED <<cfg_last, cfg_out>>
                  /\ cfg_pc' = "error"

\* The loop is over: track the files read and return out.
LoadEnd ==
    /\ cfg_pc = "loop"
    /\ IF Len(cfg_files) = 0
       THEN /\ cfg_out' = cfg_out
            /\ cfg_pc' = "done"
            /\ cfg_exc' = cfg_exc
       ELSE IF IsDict(SetDefault(cfg_out, "cache", PyDict(EmptyDict))["cache"])
            THEN /\ cfg_out' = track(cfg_out, cfg_files)
                 /\ cfg_pc' = "done"
                 /\ cfg_exc' = cfg_exc
            ELSE /\ cfg_out' = cfg_out
                 /\ cfg_pc' = "error"
                 /\ cfg_exc' = "AttributeError"
    /\ UNCHANGED <<cfg_last, cfg_files, cfg_read, bld_vars, st_vars, ext_vars>>

CfgInit ==
    /\ cfg_pc = "start"
    /\ cfg_out = EmptyDict
    /\ cfg_last = EmptyDict
    /\ cfg_files = <<>>
    /\ cfg_read = NoneV
    /\ cfg_exc = "none"


----------------------------------------------------------------------------
(* config.build *)

MaxArg == 4       \* an extra positional argument is one of 3..MaxArg
MaxArgs == 4      \* an `args` list grows to at most MaxArgs entries

\* A qualified name 'a.b.c' is held as the parts <<"a", "b", "c">> that
\* name.split('.') yields; `*module, name = ...` takes them apart.
ModuleOf(parts) == SubSeq(parts, 1, Len(parts) - 1)
LeafOf(parts) == parts[Len(parts)]

\* What importlib.import_module and getattr find: the modules that exist and
\* their attributes, each callable or not, a class or not, and with the name
\* of its own type (`type` for a class without a metaclass, ABCMeta for
\* fractions.Fraction).
Modules == {<<"json">>, <<"os">>, <<"fractions">>}
Attrs(module) ==
    IF module = <<"json">>
    THEN [loads |-> [id |-> "json.loads", callable |-> TRUE, class |-> FALSE,
                     meta |-> "function"],
          JSONDecodeError |->
              [id |-> "json.JSONDecodeError", callable |-> TRUE, class |-> TRUE,
               meta |-> "type"]]
    ELSE IF module = <<"fractions">>
    THEN [Fraction |-> [id |-> "fractions.Fraction", callable |-> TRUE, class |-> TRUE,
                        meta |-> "ABCMeta"]]
    ELSE [sep |-> [id |-> "os.sep", callable |-> FALSE, class |-> FALSE,
                   meta |-> "str"]]

QualifiedNames ==
    {<<"json", "loads">>, <<"json", "JSONDecodeError">>, <<"json", "nothing">>,
     <<"fractions", "Fraction">>,
     <<"os", "sep">>, <<"nomodule", "thing">>, <<"loads">>}

\* The extras of a call: at most one positional argument, and keyword
\* arguments among lr=2, eps=2.
ExtraArgs == {<<>>} \cup {<<v>> : v \in 3..MaxArg}
ExtraKwargs == Dicts({"lr", "eps"}, LAMBDA k : {2})

\* The entries a configuration may hold for build: a dict with `name` and,
\* optionally, `args` and `kwargs`; a bare qualified name; or, passed by the
\* caller, the callable itself.
Optional(V) == {[has |-> FALSE]} \cup {[has |-> TRUE, v |-> x] : x \in V}
Entry(k, o) == IF o.has THEN k :> o.v ELSE <<>>
DictSpecs ==
    {[t |-> "dict", m |-> ("name" :> n) @@ Entry("args", a) @@ Entry("kwargs", k)] :
        n \in QualifiedNames,
        a \in Optional({<<>>, <<1, 2>>}),
        k \in Optional({<<>>, [lr |-> 1]})}
StrSpecs == {[t |-> "str", s |-> n] : n \in {<<"json", "loads">>, <<"loads">>}}
CallableSpecs ==
    {[t |-> "callable", f |-> Attrs(<<"json">>)[a]] : a \in {"loads", "JSONDecodeError"}}

BuildSpecs == DictSpecs \cup StrSpecs \cup CallableSpecs

\* if isinstance(f, str): f = dict(name=f)
as_dict(f) == IF f.t = "str" THEN [t |-> "dict", m |-> [name |-> f.s]] ELSE f

\* ar = f.get('args', []) and kw = f.get('kwargs', {}); for a callable f the
\* initial ar = [] and kw = {}.
base_args(f) == IF f.t = "dict" /\ "args" \in DOMAIN f.m THEN f.m["args"] ELSE <<>>
base_kwargs(f) == IF f.t = "dict" /\ "kwargs" \in DOMAIN f.m THEN f.m["kwargs"] ELSE <<>>

\* ar.extend(args) with the extras put in front.
extend_front(ar, args) == args \o ar

\* ar.extend(args)
extend(ar, args) == ar \o args

\* kw.update(kwargs)
update(kw, kwargs) == kwargs @@ kw

\* The name resolution where an attribute the module lacks is reported like
\* one that is not callable.
resolve_error_missing_as_type(f) ==
    LET parts == f.m["name"] IN
    IF ModuleOf(parts) = <<>> THEN "ValueError"
    ELSE IF ModuleOf(parts) \notin Modules THEN "ModuleNotFoundError"
    ELSE IF LeafOf(parts) \notin DOMAIN Attrs(ModuleOf(parts)) THEN "TypeError"
    ELSE IF ~Attrs(ModuleOf(parts))[LeafOf(parts)].callable THEN "TypeError"
    ELSE ""

\* The exception the name resolution of a dict entry raises, "" if none.
resolve_error(f) ==
    LET parts == f.m["name"] IN
    IF ModuleOf(parts) = <<>> THEN "ValueError"
    ELSE IF ModuleOf(parts) \notin Modules THEN "ModuleNotFoundError"
    ELSE IF LeafOf(parts) \notin DOMAIN Attrs(ModuleOf(parts)) THEN "AttributeError"
    ELSE IF ~Attrs(ModuleOf(parts))[LeafOf(parts)].callable THEN "TypeError"
    ELSE ""

\* f = getattr(module, name)
resolve(f) ==
    IF f.t = "callable" THEN f.f
    ELSE Attrs(ModuleOf(f.m["name"]))[LeafOf(f.m["name"])]

\* The entry after the call: ar and kw are the entry's own list and dict when
\* it has them, so extend and update change the entry.
spec_after(f, args, kwargs) ==
    IF f.t # "dict" THEN f
    ELSE [f EXCEPT !.m =
            [k \in DOMAIN f.m |->
                IF k = "args" THEN extend(f.m["args"], args)
                ELSE IF k = "kwargs" THEN update(f.m["kwargs"], kwargs)
                ELSE f.m[k]]]

\* What build returns for the resolved entity e and the merged ar and kw.
build_result(e, ar, kw, instance) ==
    IF e.meta = "type" /\ instance
    THEN [kind |-> "instance", f |-> e.id, args |-> ar, kwargs |-> kw]
    ELSE IF ar # <<>> \/ kw # <<>>
         THEN [kind |-> "partial", f |-> e.id, args |-> ar, kwargs |-> kw]
         ELSE [kind |-> "callable", f |-> e.id, args |-> <<>>, kwargs |-> <<>>]

\* build(f, *args, instance=instance, **kwargs) on the entry bld_spec.
Build ==
    /\ UNCHANGED <<cfg_vars, st_vars, ext_vars>>
    /\ \E args \in ExtraArgs, kwargs \in ExtraKwargs, instance \in BOOLEAN :
         LET f == as_dict(bld_spec) IN
         /\ Len(base_args(f)) + Len(args) <= MaxArgs
         /\ bld_call' = [pre |-> bld_spec, args |-> args, kwargs |-> kwargs,
                         instance |-> instance]
         /\ IF f.t = "dict" /\ resolve_error(f) # ""
            THEN /\ bld_res' = [kind |-> "error", exc |-> resolve_error(f)]
                 /\ bld_spec' = bld_spec
            ELSE /\ bld_res' = build_result(resolve(f),
                                            extend(base_args(f), args),
                                            update(base_kwargs(f), kwargs),
                                            instance)
                 /\ bld_spec' = spec_after(bld_spec, args, kwargs)

BldInit ==
    /\ bld_spec \in BuildSpecs
    /\ bld_call = [pre |-> bld_spec, args |-> <<>>, kwargs |-> <<>>, instance |-> TRUE]
    /\ bld_res = [kind |-> "none"]

\* No entry is being built.
BldIdle ==
    /\ bld_spec = [t |-> "str", s |-> <<"json", "loads">>]
    /\ bld_call = [pre |-> bld_spec, args |-> <<>>, kwargs |-> <<>>, instance |-> TRUE]
    /\ bld_res = [kind |-> "none"]

----------------------------------------------------------------------------
(* state.path, state.epoch: checkpoint paths *)

MaxPad == 2       \* the path template pads the epoch to a width in 1..MaxPad

PyFloat(n) == [t |-> "float", n |-> n]

\* A path is the sequence of the character codes of its file name from the
\* epoch field on; the folder and the experiment name before it are the same
\* in every path of the experiment.
Zero == 48                     \* ord('0')
Suffix == <<46, 112, 116>>     \* '.pt'
IsDigit(c) == c \in Zero..(Zero + 9)

RECURSIVE Decimal(_)
\* str(n) for n >= 0, as character codes.
Decimal(n) == IF n < 10 THEN <<Zero + n>> ELSE Append(Decimal(n \div 10), Zero + (n % 10))

\* '{epoch:0<w>d}'.format(epoch=n): the decimal, zero-filled up to w characters.
FormatEpoch(n, w) ==
    LET d == Decimal(n) IN
    IF Len(d) >= w THEN d ELSE [i \in 1..(w - Len(d)) |-> Zero] \o d

RECURSIVE ParseInt(_)
\* int(s) of a string of digits.
ParseInt(s) ==
    IF Len(s) = 0 THEN 0
    ELSE 10 * ParseInt(SubSeq(s, 1, Len(s) - 1)) + (s[Len(s)] - Zero)

\* re.search(conf['checkpoint']['regex'], str(path))['epoch']: the digits of
\* the epoch field, which end where the suffix begins.
RegexEpoch(p) ==
    LET n == IF \E i \in 1..Len(p) : ~IsDigit(p[i])
             THEN (CHOOSE i \in 1..Len(p) :
                        ~IsDigit(p[i]) /\ \A j \in 1..(i - 1) : IsDigit(p[j])) - 1
             ELSE Len(p)
    IN  SubSeq(p, 1, n)

\* path(conf, epoch) with the epoch field one too high (epochs counted from 1
\* in file names).
path_one_based(conf, e) == FormatEpoch(e + 1, conf.pad) \o Suffix

\* path(conf, epoch)
path(conf, e) == FormatEpoch(e, conf.pad) \o Suffix

\* epoch(conf, path)
epoch(conf, p) == ParseInt(RegexEpoch(p))

\* The configured pattern matches the path: an epoch field of one digit or
\* more, then the suffix.
RegexMatches(p) ==
    /\ RegexEpoch(p) # <<>>
    /\ SubSeq(p, Len(RegexEpoch(p)) + 1, Len(p)) = Suffix

\* re.search(pattern, str(path)): None when the pattern does not match.
search(conf, p) == IF RegexMatches(p) THEN [t |-> "match", epoch |-> RegexEpoch(p)] ELSE NoneV

\* A call of epoch(conf, path): the epoch returned, or the exception that
\* subscripting None raises.
epoch_call(conf, p) ==
    IF search(conf, p) = NoneV
    THEN [kind |-> "error", exc |-> "TypeError"]
    ELSE [kind |-> "ok", epoch |-> epoch(conf, p)]

----------------------------------------------------------------------------
(* state.list *)

Min(S) == CHOOSE x \in S : \A y \in S : x <= y
Max(S) == CHOOSE x \in S : \A y \in S : x >= y

\* a < b for two path strings (character by character, a prefix first).
StrLess(a, b) ==
    LET n == IF Len(a) < Len(b) THEN Len(a) ELSE Len(b)
        diff == {i \in 1..n : a[i] # b[i]}
    IN  IF diff = {} THEN Len(a) < Len(b) ELSE a[Min(diff)] < b[Min(diff)]

RECURSIVE Sorted(_)
\* sorted(S)
Sorted(S) ==
    IF S = {} THEN <<>>
    ELSE LET m == CHOOSE x \in S : \A y \in S \ {x} : StrLess(x, y)
         IN  <<m>> \o Sorted(S \ {m})

\* The epoch argument of list as (start, stop, step).
range(f) ==
    IF f.t \in {"none", "int"} THEN <<f, f, NoneV>>
    ELSE IF Len(f.q) = 1 THEN <<f.q[1], f.q[1], NoneV>>
    ELSE IF Len(f.q) = 2 THEN <<f.q[1], f.q[2], NoneV>>
    ELSE f.q

RECURSIVE filtering(_, _, _, _)
\* The filtering loop from index i on, `indices` collected so far.
filtering(i, indices, epochs, r) ==
    IF i > Len(epochs) THEN indices
    ELSE IF r[1].t # "none" /\ epochs[i] < r[1].n
         THEN filtering(i + 1, indices, epochs, r)
    ELSE IF r[2].t # "none" /\ epochs[i] > r[2].n
         THEN indices
    ELSE IF r[3].t # "none" /\ indices # <<>> /\ epochs[i] - epochs[i - 1] < r[3].n
         THEN filtering(i + 1, indices, epochs, r)
    ELSE filtering(i + 1, Append(indices, i), epochs, r)

\* list returning the empty list where no checkpoint is left to return.
list_returns_empty(conf, disk, f) ==
    LET files == Sorted(DOMAIN disk)
        epochs == [i \in 1..Len(files) |-> epoch(conf, files[i])]
        indices == filtering(1, <<>>, epochs, range(f))
    IN  [kind |-> "ok", files |-> [i \in 1..Len(indices) |-> files[indices[i]]]]

\* list(conf, epoch) over the files `disk` holds.
list(conf, disk, f) ==
    LET files == Sorted(DOMAIN disk)
        epochs == [i \in 1..Len(files) |-> epoch(conf, files[i])]
        indices == filtering(1, <<>>, epochs, range(f))
    IN  IF files = <<>> \/ indices = <<>>
        THEN [kind |-> "error", exc |-> "FileNotFoundError"]
        ELSE [kind |-> "ok", files |-> [i \in 1..Len(indices) |-> files[indices[i]]]]

----------------------------------------------------------------------------
(* state.save, state.load *)

MaxVal == 1       \* a component's state is one of 0..MaxVal
MaxFiles == 2     \* at most MaxFiles checkpoints are kept on disk

Components == {"model", "optim"}

\* config.env(conf), the record saved under 'env'.
EnvRecord == -1

\* The file conf['training']['init'] names, and what it holds.
InitPath == <<105, 110, 105, 116>> \o Suffix
InitFileState == [model |-> MaxVal, optim |-> MaxVal]

\* The epochs the training loop saves at, and other epoch arguments.
SaveEpochs == {0, 7, 10}
EpochArgs == {PyInt(e) : e \in SaveEpochs \cup {-1}} \cup {PyFloat(7)}

\* conf['checkpoint']['period']
Periods == {5}

\* The keyword arguments of save and of load, in the caller's order.
SaveKwargs == {<<"model">>, <<"model", "optim">>}
LoadKwargs == {<<"model", "optim">>, <<"optim", "model">>}

\* conf['training']['resume'] and conf['training'].get('init')
ResumeValues ==
    {PyBool(TRUE), PyBool(FALSE), PyStr("latest")} \cup {PyInt(e) : e \in {0, 7}}
InitValues == {NoneV, PyStr("init.pt")}

\* The epoch test of save letting negative ints through.
invalid_epoch_accepts_negative(e) == e.t # "int"

\* not isinstance(epoch, int) or epoch < 0
invalid_epoch(e) == e.t # "int" \/ e.n < 0

\* epoch % period != 0 and not force, with `or` for `and`.
skip_save_or(e, period, force) == e % period # 0 \/ ~force

\* epoch % period != 0 and not force
skip_save(e, period, force) == e % period # 0 /\ ~force

\* The saved state holding the first component only.
saved_state_first_only(live, comps) ==
    ("env" :> EnvRecord) @@ [k \in {comps[1]} |-> live[k]]

\* state = {k: v.state_dict() ...}; state['env'] = env(conf)
saved_state(live, comps) ==
    ("env" :> EnvRecord) @@ [k \in {comps[i] : i \in 1..Len(comps)} |-> live[k]]

\* save(conf, epoch, force, **kwargs)
Save ==
    /\ UNCHANGED <<cfg_vars, bld_vars, ext_vars, st_pad, st_live>>
    /\ \E e \in EpochArgs, force \in BOOLEAN, period \in Periods, comps \in SaveKwargs :
         LET conf == [pad |-> st_pad, period |-> period] IN
         /\ st_call' = [op |-> "save", epoch |-> e, force |-> force,
                        period |-> period, comps |-> comps]
         /\ IF invalid_epoch(e)
            THEN /\ st_ret' = [kind |-> "error", exc |-> "ValueError"]
                 /\ UNCHANGED <<st_disk, st_dir, st_saved>>
            ELSE IF skip_save(e.n, conf.period, force)
            THEN /\ st_ret' = [kind |-> "ok", wrote |-> <<>>]
                 /\ UNCHANGED <<st_disk, st_dir, st_saved>>
            ELSE \E p \in {path(conf, e.n)} :
                 /\ p \in DOMAIN st_disk \/ Cardinality(DOMAIN st_disk) < MaxFiles
                 /\ st_dir' = TRUE
                 /\ st_disk' = (p :> saved_state(st_live, comps)) @@ st_disk
                 /\ st_saved' = (p :> [k \in {comps[i] : i \in 1..Len(comps)} |->
                                           st_live[k]]) @@ st_saved
                 /\ st_ret' = [kind |-> "ok", wrote |-> p]

RECURSIVE restore_skips_missing(_, _, _, _)
\* The restoring loop passing over the components the file has no entry for.
restore_skips_missing(comps, i, live, state) ==
    IF i > Len(comps) THEN [live |-> live, exc |-> ""]
    ELSE IF comps[i] \notin DOMAIN state
         THEN restore_skips_missing(comps, i + 1, live, state)
    ELSE restore_skips_missing(comps, i + 1,
                               [live EXCEPT ![comps[i]] = state[comps[i]]], state)

\* The restoring loop as all or nothing: no component is touched when the
\* file lacks the entry of one of them.
restore_all_or_nothing(comps, i, live, state) ==
    IF \E j \in i..Len(comps) : comps[j] \notin DOMAIN state
    THEN [live |-> live, exc |-> "KeyError"]
    ELSE [live |-> [k \in DOMAIN live |->
                        IF \E j \in i..Len(comps) : comps[j] = k THEN state[k] ELSE live[k]],
          exc |-> ""]

RECURSIVE restore(_, _, _, _)
\* for k, v in kwargs.items(): v.load_state_dict(state[k]), from the i-th on:
\* the components after the loop, and the exception that ended it ("" if none).
restore(comps, i, live, state) ==
    IF i > Len(comps) THEN [live |-> live, exc |-> ""]
    ELSE IF comps[i] \notin DOMAIN state THEN [live |-> live, exc |-> "KeyError"]
    ELSE restore(comps, i + 1, [live EXCEPT ![comps[i]] = state[comps[i]]], state)

\* torch.load(path): the files that can be read.
Readable(disk) == (InitPath :> InitFileState) @@ disk

\* load's resolution where a fresh start never reads the `init` file.
resolve_init_fresh_reads_nothing(conf, disk) ==
    LET listed == list(conf, disk, NoneV)
        checkpoints == IF listed.kind = "ok" THEN listed.files ELSE <<>>
    IN  IF checkpoints = <<>> \/ (conf.resume.t = "bool" /\ ~conf.resume.b)
        THEN [kind |-> "fresh", epoch |-> 0]
        ELSE IF conf.resume.t = "bool"
        THEN [kind |-> "read", src |-> checkpoints[Len(checkpoints)],
              epoch |-> epoch(conf, checkpoints[Len(checkpoints)])]
        ELSE IF conf.resume.t = "int"
        THEN [kind |-> "read", src |-> path(conf, conf.resume.n), epoch |-> conf.resume.n]
        ELSE [kind |-> "error", exc |-> "ValueError"]

\* load's resolution where an int `resume` is searched for in the listing:
\* the first listed checkpoint of at least that epoch, the last one if none.
resolve_init_searches(conf, disk) ==
    LET listed == list(conf, disk, NoneV)
        checkpoints == IF listed.kind = "ok" THEN listed.files ELSE <<>>
        found == {i \in 1..Len(checkpoints) :
                      epoch(conf, checkpoints[i]) >= conf.resume.n}
        at == IF found = {} THEN Len(checkpoints) ELSE Min(found)
    IN  IF checkpoints = <<>> \/ (conf.resume.t = "bool" /\ ~conf.resume.b)
        THEN IF ~Truthy(conf.init)
             THEN [kind |-> "fresh", epoch |-> 0]
             ELSE [kind |-> "read", src |-> InitPath, epoch |-> 0]
        ELSE IF conf.resume.t = "bool"
        THEN [kind |-> "read", src |-> checkpoints[Len(checkpoints)],
              epoch |-> epoch(conf, checkpoints[Len(checkpoints)])]
        ELSE IF conf.resume.t = "int"
        THEN [kind |-> "read", src |-> checkpoints[at],
              epoch |-> epoch(conf, checkpoints[at])]
        ELSE [kind |-> "error", exc |-> "ValueError"]

\* The checkpoint load resolves to and the epoch it reports:
\* kind "fresh" (return 0, nothing read), "read" (from `src`) or "error".
resolve_init(conf, disk) ==
    LET listed == list(conf, disk, NoneV)
        checkpoints == IF listed.kind = "ok" THEN listed.files ELSE <<>>
    IN  IF checkpoints = <<>> \/ (conf.resume.t = "bool" /\ ~conf.resume.b)
        THEN IF ~Truthy(conf.init)
             THEN [kind |-> "fresh", epoch |-> 0]
             ELSE [kind |-> "read", src |-> InitPath, epoch |-> 0]
        ELSE IF conf.resume.t = "bool"
        THEN [kind |-> "read", src |-> checkpoints[Len(checkpoints)],
              epoch |-> epoch(conf, checkpoints[Len(checkpoints)])]
        ELSE IF conf.resume.t = "int"
        THEN [kind |-> "read", src |-> path(conf, conf.resume.n), epoch |-> conf.resume.n]
        ELSE [kind |-> "error", exc |-> "ValueError"]

\* load(conf, **kwargs)
Load ==
    /\ UNCHANGED <<cfg_vars, bld_vars, ext_vars, st_pad, st_disk, st_dir, st_saved>>
    /\ \E resume \in ResumeValues, init \in InitValues, comps \in LoadKwargs :
         \E r \in {resolve_init([pad |-> st_pad, resume |-> resume, init |-> init],
                                  st_disk)} :
         /\ st_call' = [op |-> "load", resume |-> resume, init |-> init,
                        comps |-> comps]
         /\ IF r.kind = "error"
            THEN /\ st_ret' = [kind |-> "error", exc |-> r.exc]
                 /\ st_live' = st_live
            ELSE IF r.kind = "fresh"
            THEN /\ st_ret' = [kind |-> "ok", epoch |-> r.epoch, src |-> <<>>]
                 /\ st_live' = st_live
            ELSE IF r.src \notin DOMAIN Readable(st_disk)
            THEN /\ st_ret' = [kind |-> "error", exc |-> "FileNotFoundError"]
                 /\ st_live' = st_live
            ELSE \E done \in {restore(comps, 1, st_live, Readable(st_disk)[r.src])} :
                 /\ st_live' = done.live
                 /\ st_ret' = IF done.exc = ""
                              THEN [kind |-> "ok", epoch |-> r.epoch, src |-> r.src]
                              ELSE [kind |-> "error", exc |-> done.exc, src |-> r.src]

\* Training goes on: a component's state changes.
Train ==
    /\ UNCHANGED <<cfg_vars, bld_vars, ext_vars, st_pad, st_disk, st_dir, st_saved>>
    /\ \E k \in Components, v \in 0..MaxVal :
         /\ v # st_live[k]
         /\ st_live' = [st_live EXCEPT ![k] = v]
         /\ st_call' = [op |-> "train"]
         /\ st_ret' = [kind |-> "none"]

\* No checkpoint operation is going on.
StIdle ==
    /\ st_pad = 1
    /\ st_disk = <<>>
    /\ st_dir = FALSE
    /\ st_live = [k \in Components |-> 0]
    /\ st_saved = <<>>
    /\ st_call = [op |-> "none"]
    /\ st_ret = [kind |-> "none"]

\* A new experiment: no checkpoint yet, the components as constructed.
StInit ==
    /\ st_pad \in 1..MaxPad
    /\ st_disk = <<>>
    /\ st_dir = FALSE
    /\ st_live = [k \in Components |-> 0]
    /\ st_saved = <<>>
    /\ st_call = [op |-> "none"]
    /\ st_ret = [kind |-> "none"]

----------------------------------------------------------------------------
(* state.list, state.path and state.epoch as functions of the files present *)

MaxListEpoch == 15   \* the checkpoints listed have epochs in 0..MaxListEpoch
MaxListFiles == 4    \* and at most MaxListFiles of them exist

\* Checkpoints exist at multiples of five and two epochs after them.
ListEpochs == {e \in 0..MaxListEpoch : e % 5 \in {0, 2}}

\* The epoch arguments list is called with.
Bounds == {NoneV, PyInt(0), PyInt(5), PyInt(12), PyInt(15)}
Steps == {NoneV, PyInt(10)}
Filters ==
    {NoneV, PyInt(5), PyInt(10)}
    \cup {[t |-> "tuple", q |-> <<a>>] : a \in {PyInt(5)}}
    \cup {[t |-> "tuple", q |-> <<a, b>>] : a \in Bounds, b \in Bounds}
    \cup {[t |-> "tuple", q |-> <<a, b, c>>] : a \in Bounds, b \in Bounds, c \in Steps}

\* list(conf, epoch=f)
List ==
    /\ UNCHANGED <<cfg_vars, bld_vars, ext_vars, st_pad, st_disk, st_dir, st_live, st_saved>>
    /\ st_call.op = "none"
    /\ \E f \in Filters :
         /\ st_call' = [op |-> "list", filter |-> f]
         /\ st_ret' = list([pad |-> st_pad], st_disk, f)

\* epoch(conf, path(conf, e))
PathEpoch ==
    /\ UNCHANGED <<cfg_vars, bld_vars, ext_vars, st_pad, st_disk, st_dir, st_live, st_saved>>
    /\ st_call.op = "none"
    /\ \E e \in 0..MaxListEpoch :
         /\ st_call' = [op |-> "path", epoch |-> e]
         /\ st_ret' = [kind |-> "ok", path |-> path([pad |-> st_pad], e),
                       epoch |-> epoch([pad |-> st_pad], path([pad |-> st_pad], e))]

\* The paths epoch is called with: checkpoints of the experiment, the initial
\* weights, and a name that is the suffix alone; the last two hold no digit.
EpochPaths ==
    {path([pad |-> w], e) : w \in 1..MaxPad, e \in {0, 7, MaxListEpoch}}
    \cup {InitPath, Suffix}

\* epoch(conf, p)
Epoch ==
    /\ UNCHANGED <<cfg_vars, bld_vars, ext_vars, st_pad, st_disk, st_dir, st_live, st_saved>>
    /\ st_call.op = "none"
    /\ \E p \in EpochPaths :
         /\ st_call' = [op |-> "epoch", path |-> p]
         /\ st_ret' = epoch_call([pad |-> st_pad], p)

\* Any set of checkpoints of the experiment, saved by earlier runs.
ListInit ==
    /\ st_pad \in 1..MaxPad
    /\ \E E \in SUBSET ListEpochs :
         /\ Cardinality(E) <= MaxListFiles
         /\ st_disk = [p \in {path([pad |-> st_pad], e) : e \in E} |->
                          saved_state([k \in Components |-> 0], <<"model">>)]
    /\ st_dir = (st_disk # <<>>)
    /\ st_live = [k \in Components |-> 0]
    /\ st_saved = <<>>
    /\ st_call = [op |-> "none"]
    /\ st_ret = [kind |-> "none"]

----------------------------------------------------------------------------
(* config.argparse: options of the command line *)

MaxPath == 3      \* an option names at most MaxPath keys
MaxValue == 3     \* the value of an option has at most MaxValue characters

\* An option is the sequence of its character codes, as a path is.
Colon == 58       \* ord(':')
Equals == 61      \* ord('=')
Minus == 45       \* ord('-')
Dot == 46         \* ord('.')
Exp == 101        \* ord('e')
TrueText == <<116, 114, 117, 101>>          \* 'true'
FalseText == <<102, 97, 108, 115, 101>>     \* 'false'

\* The keys an option may name, and the characters of each.
KeyText == [a |-> <<97>>, x |-> <<120>>, y |-> <<121>>]
OptKeys == DOMAIN KeyText

\* The dict key a split-off piece of the option is.
KeyOf(s) == CHOOSE k \in OptKeys : KeyText[k] = s

RECURSIVE Split(_, _)
\* s.split(c)
Split(s, c) ==
    IF \A i \in 1..Len(s) : s[i] # c THEN <<s>>
    ELSE LET i == CHOOSE i \in 1..Len(s) : s[i] = c /\ \A j \in 1..(i - 1) : s[j] # c
         IN  <<SubSeq(s, 1, i - 1)>> \o Split(SubSeq(s, i + 1, Len(s)), c)

\* s without a leading minus sign.
Unsigned(s) == IF Len(s) > 0 /\ s[1] = Minus THEN Tail(s) ELSE s

\* s is one digit or more.
Digits(s) == Len(s) > 0 /\ \A i \in 1..Len(s) : IsDigit(s[i])

\* int(x) does not raise ValueError: an optional sign, then digits.
int_parses(x) == Digits(Unsigned(x))

\* int(x)
int_of(x) == IF x[1] = Minus THEN 0 - ParseInt(Tail(x)) ELSE ParseInt(x)

\* float(x) does not raise ValueError: an optional sign, digits with at most
\* one point among them, then an optional exponent `e` with a signed integer.
float_parses(x) ==
    LET parts == Split(Unsigned(x), Exp)
        m == Split(parts[1], Dot)
    IN  /\ Len(parts) <= 2
        /\ Len(parts) = 2 => int_parses(parts[2])
        /\ Len(m) <= 2
        /\ \A i \in 1..Len(m) : m[i] = <<>> \/ Digits(m[i])
        /\ \E i \in 1..Len(m) : m[i] # <<>>

RECURSIVE Normal(_, _)
\* The number m * 10^e, written without trailing zeros in m.
Normal(m, e) ==
    IF m = 0 THEN [m |-> 0, e |-> 0]
    ELSE IF m % 10 = 0 THEN Normal(m \div 10, e + 1)
    ELSE [m |-> m, e |-> e]

\* float(x): the float sign * m * 10^e.
float_of(x) ==
    LET parts == Split(Unsigned(x), Exp)
        m == Split(parts[1], Dot)
        frac == IF Len(m) = 2 THEN m[2] ELSE <<>>
        ex == IF Len(parts) = 2 THEN int_of(parts[2]) ELSE 0
        n == Normal(ParseInt(m[1] \o frac), ex - Len(frac))
    IN  [t |-> "float", neg |-> Len(x) > 0 /\ x[1] = Minus /\ n.m # 0,
         m |-> n.m, e |-> n.e]

\* cast(x) trying float before int.
cast_float_first(x) ==
    IF x = TrueText THEN PyBool(TRUE)
    ELSE IF x = FalseText THEN PyBool(FALSE)
    ELSE IF float_parses(x) THEN float_of(x)
    ELSE IF int_parses(x) THEN PyInt(int_of(x))
    ELSE PyStr(x)

\* cast(x)
cast(x) ==
    IF x = TrueText THEN PyBool(TRUE)
    ELSE IF x = FalseText THEN PyBool(FALSE)
    ELSE IF int_parses(x) THEN PyInt(int_of(x))
    ELSE IF float_parses(x) THEN float_of(x)
    ELSE PyStr(x)

RECURSIVE assign(_, _, _)
\* sub = config; for k in keys: sub = sub[k]; sub[last] = v, with ks the keys
\* and last: the value sub becomes, or the exception raised on the way.
assign(sub, ks, v) ==
    IF ~IsDict(sub) THEN [exc |-> "TypeError"]
    ELSE IF Len(ks) = 1 THEN [exc |-> "none", val |-> PyDict(SetItem(sub.m, ks[1], v))]
    ELSE IF ks[1] \notin DOMAIN sub.m THEN [exc |-> "KeyError"]
    ELSE LET r == assign(sub.m[ks[1]], Tail(ks), v) IN
         IF r.exc # "none" THEN r
         ELSE [exc |-> "none", val |-> PyDict(SetItem(sub.m, ks[1], r.val))]

\* argparse(config, option): the configuration it leaves and how it ends.
argparse(config, option) ==
    LET parts == Split(option, Equals) IN
    IF Len(parts) # 2 THEN [kind |-> "error", exc |-> "ValueError", conf |-> config]
    ELSE LET keys == Split(parts[1], Colon)
             r == assign(PyDict(config), [i \in 1..Len(keys) |-> KeyOf(keys[i])],
                         cast(parts[2]))
         IN  IF r.exc # "none" THEN [kind |-> "error", exc |-> r.exc, conf |-> config]
             ELSE [kind |-> "ok", exc |-> "none", conf |-> r.val.m]

\* The configurations options are applied to.
OptLevel2Vals(k) == {PyInt(1)}
OptLevel2 == Dicts({"y"}, OptLevel2Vals)
OptLevel1Vals(k) == {PyInt(1)} \cup {PyDict(d) : d \in OptLevel2}
OptLevel1 == Dicts({"x"}, OptLevel1Vals)
OptRootVals(k) == {PyInt(1)} \cup {PyDict(d) : d \in OptLevel1}
OptConfs == Dicts({"a"}, OptRootVals)

\* The key paths options name, `key1:...:keyN`.
RECURSIVE Join(_)
Join(p) == IF Len(p) = 1 THEN KeyText[p[1]] ELSE KeyText[p[1]] \o <<Colon>> \o Join(Tail(p))
OptPaths == UNION {[1..n -> OptKeys] : n \in 1..MaxPath}

\* The values options give: the two literals, a capitalised one, and every
\* string of digits, signs, points and exponent marks.
OptValues ==
    {TrueText, FalseText, <<84, 114, 117, 101>>, <<>>}
    \cup UNION {[1..n -> {Zero, Zero + 1, Minus, Dot, Exp}] : n \in 1..MaxValue}

\* The option strings: well formed, without `=`, and with a second `=`.
Options ==
    {Join(p) \o <<Equals>> \o v : p \in OptPaths, v \in OptValues}
    \cup {Join(p) : p \in OptPaths}
    \cup {Join(p) \o <<Equals, Zero + 1, Equals, Zero + 1>> : p \in OptPaths}

\* argparse(config, option)
Argparse ==
    /\ UNCHANGED <<cfg_vars, bld_vars, st_vars, env_vars, cli_vars, wrp_vars, map_vars>>
    /\ opt_call.op = "none"
    /\ \E option \in Options :
         \E r \in {argparse(opt_conf, option)} :
           /\ opt_call' = [op |-> "argparse", pre |-> opt_conf, option |-> option]
           /\ opt_res' = [kind |-> r.kind, exc |-> r.exc]
           /\ opt_conf' = r.conf

\* A configuration loaded before the options are applied.
OptInit ==
    /\ opt_conf \in OptConfs
    /\ opt_call = [op |-> "none"]
    /\ opt_res = [kind |-> "none"]

----------------------------------------------------------------------------
(* docker/entrypoint.py: main, with eval.segment *)

MaxArgv == 3      \* a command line has at most MaxArgv arguments

\* An argument of the command line: an input image, an output option with
\* its path (`-o`, `-p`, `-l`), or a flag.
ArgvTokens == {"image", "-o", "-p", "-l", "-g", "-h", "-V"}
Argvs == UNION {[1..n -> ArgvTokens] : n \in 0..MaxArgv}

\* What a run of the tool does: what it prints where, whether it loads the
\* configuration and the model, the outputs it writes, and its exit status.
Run(status, out, err, config, model, written) ==
    [status |-> status, out |-> out, err |-> err, config |-> config,
     model |-> model, written |-> written]

\* The output paths the arguments give.
out_paths(argv) == {argv[i] : i \in 1..Len(argv)} \cap {"-o", "-p", "-l"}

\* The input images are one run of neighbouring arguments.
images_adjacent(argv) ==
    \A i, j \in 1..Len(argv) :
        (i < j /\ argv[i] = "image" /\ argv[j] = "image") =>
            \A k \in i..j : argv[k] = "image"

\* babyseg.eval.segment(**arg) that goes on to the model without testing the
\* output paths.
segment_without_output_test(argv) ==
    Run(0, {}, {}, TRUE, TRUE, out_paths(argv))

\* babyseg.eval.segment(**arg)
segment(argv) ==
    IF out_paths(argv) = {}
    THEN Run(1, {}, {"error"}, TRUE, FALSE, {})
    ELSE Run(0, {}, {}, TRUE, TRUE, out_paths(argv))

\* p.parse_args(argv) leaving the program: at the first `-h` or `-V`, or at
\* the end when no image was given or an image stands apart from the others.
parse_exits(argv) ==
    \/ \E i \in 1..Len(argv) : argv[i] \in {"-h", "-V"}
    \/ \A i \in 1..Len(argv) : argv[i] # "image"
    \/ ~images_adjacent(argv)

\* What p.parse_args(argv) does when it leaves the program.
parse_exit(argv) ==
    IF \E i \in 1..Len(argv) : argv[i] \in {"-h", "-V"}
    THEN LET i == CHOOSE i \in 1..Len(argv) :
                    /\ argv[i] \in {"-h", "-V"}
                    /\ \A j \in 1..(i - 1) : argv[j] \notin {"-h", "-V"}
         IN  IF argv[i] = "-h"
             THEN Run(0, {"usage", "help"}, {}, FALSE, FALSE, {})
             ELSE Run(0, {"version"}, {}, FALSE, FALSE, {})
    ELSE Run(2, {}, {"usage", "error"}, FALSE, FALSE, {})

\* main(argv), with BABYSEG_HOME set or not.
main(home, argv) ==
    IF ~home THEN Run(1, {}, {"error"}, FALSE, FALSE, {})
    ELSE IF Len(argv) = 0 THEN Run(0, {"usage"}, {}, FALSE, FALSE, {})
    ELSE IF parse_exits(argv) THEN parse_exit(argv)
    ELSE segment(argv)

\* One run of the command line tool.
Main ==
    /\ UNCHANGED <<cfg_vars, bld_vars, st_vars, opt_vars, env_vars, wrp_vars, map_vars>>
    /\ cli_call.op = "none"
    /\ \E home \in BOOLEAN, argv \in Argvs :
         /\ cli_call' = [op |-> "main", home |-> home, argv |-> argv]
         /\ cli_ret' = main(home, argv)

----------------------------------------------------------------------------
(* data.slurm_map *)

MaxSamples == 4   \* at most MaxSamples samples are mapped
MaxWorkers == 3   \* the job array has at most MaxWorkers workers

\* The sample sequences: samples 1..n in any order, each once.
SampleSeqs ==
    UNION {{q \in [1..n -> 1..MaxSamples] : \A i, j \in 1..n : q[i] = q[j] => i = j}
           : n \in 0..MaxSamples}

\* work(sample, *args, **kwargs): a value that tells the sample.
work(sample) == [worked |-> sample]

\* keep(ind) comparing with the worker's id as it is.
keep_by_id(ind, worker_id, worker_num) == ind % worker_num = worker_id

\* keep(ind)
keep(ind, worker_id, worker_num) == ind % worker_num = worker_id - 1

\* [d for i, d in enumerate(samples) if keep(i)]
shard(samples, worker_id, worker_num) ==
    LET kept == {i \in 0..(Len(samples) - 1) : keep(i, worker_id, worker_num)}
        nth(k) == CHOOSE i \in kept : Cardinality({j \in kept : j < i}) = k - 1
    IN  [k \in 1..Cardinality(kept) |-> samples[nth(k) + 1]]

\* The ids of the workers of the job array, SLURM_ARRAY_TASK_MIN upwards.
WorkerIds == map_job.min..(map_job.min + map_job.workers - 1)

\* A worker calls slurm_map: the environment is tested, the samples sharded.
SlurmMapBegin ==
    /\ UNCHANGED <<cfg_vars, bld_vars, st_vars, opt_vars, env_vars, cli_vars, wrp_vars, map_job>>
    /\ \E id \in WorkerIds \ DOMAIN map_out :
         map_out' = (id :>
            IF map_job.min # 1
            THEN [pc |-> "error", samples |-> <<>>, results |-> <<>>]
            ELSE [pc |-> "loop", samples |-> shard(map_job.samples, id, map_job.workers),
                  results |-> <<>>]) @@ map_out

\* One iteration of a worker's loop over its samples.
SlurmMapWork ==
    /\ UNCHANGED <<cfg_vars, bld_vars, st_vars, opt_vars, env_vars, cli_vars, wrp_vars, map_job>>
    /\ \E id \in DOMAIN map_out :
         /\ map_out[id].pc = "loop"
         /\ Len(map_out[id].results) < Len(map_out[id].samples)
         /\ map_out' = [map_out EXCEPT ![id].results =
                Append(@, work(map_out[id].samples[Len(@) + 1]))]

\* A worker's loop is over: slurm_map returns the results.
SlurmMapReturn ==
    /\ UNCHANGED <<cfg_vars, bld_vars, st_vars, opt_vars, env_vars, cli_vars, wrp_vars, map_job>>
    /\ \E id \in DOMAIN map_out :
         /\ map_out[id].pc = "loop"
         /\ Len(map_out[id].results) = Len(map_out[id].samples)
         /\ map_out' = [map_out EXCEPT ![id].pc = "done"]

\* A job array over some samples, no worker started.
MapInit ==
    /\ \E q \in SampleSeqs, n \in 1..MaxWorkers, m \in {0, 1} :
         map_job = [samples |-> q, workers |-> n, min |-> m]
    /\ map_out = <<>>

----------------------------------------------------------------------------
(* docker/wrapper.py *)

\* The container tool shutil.which finds first ("none": no tool; "other": a
\* tool BABYSEG_TOOL names that the script does not know).
ToolNames == {"none", "docker", "podman", "apptainer", "singularity", "other"}

\* The exit codes of the tool's `pull` and `run`.
PullCodes == {0, 1, 7}
RunCodes == {0, 3}

\* The hosts the script runs on: the tool, whether the SIF folder is a
\* directory, whether the SIF file is in it when the script starts, and how
\* the tool's commands end.
Hosts ==
    {h \in [tool : ToolNames, sif_dir : BOOLEAN, sif_file : BOOLEAN,
            pull_code : PullCodes, run_code : RunCodes] : h.sif_file => h.sif_dir}

\* The script up to its first call of the tool, pulling whether the SIF file
\* exists or not.
setup_always_pulls(h) ==
    IF h.tool \in {"none", "other"} THEN [pc |-> "done", exit |-> 1]
    ELSE IF h.tool \in {"docker", "podman"} THEN [pc |-> "run", exit |-> -1]
    ELSE IF ~h.sif_dir THEN [pc |-> "done", exit |-> 1]
    ELSE [pc |-> "pull", exit |-> -1]

\* The script up to its first call of the tool: where it goes on, or the code
\* it exits with.
setup(h) ==
    IF h.tool \in {"none", "other"} THEN [pc |-> "done", exit |-> 1]
    ELSE IF h.tool \in {"docker", "podman"} THEN [pc |-> "run", exit |-> -1]
    ELSE IF ~h.sif_dir THEN [pc |-> "done", exit |-> 1]
    ELSE IF ~h.sif_file THEN [pc |-> "pull", exit |-> -1]
    ELSE [pc |-> "run", exit |-> -1]

\* Settings, tool search, and the branch on the tool's name.
WrapperSetup ==
    /\ UNCHANGED <<cfg_vars, bld_vars, st_vars, opt_vars, env_vars, cli_vars, map_vars, wrp_host, wrp_log>>
    /\ wrp_pc = "start"
    /\ wrp_pc' = setup(wrp_host).pc
    /\ wrp_exit' = setup(wrp_host).exit

\* subprocess.run((tool, 'pull', sif, image)), and the exit when it fails.
WrapperPull ==
    /\ UNCHANGED <<cfg_vars, bld_vars, st_vars, opt_vars, env_vars, cli_vars, map_vars, wrp_host>>
    /\ wrp_pc = "pull"
    /\ wrp_log' = Append(wrp_log, "pull")
    /\ IF wrp_host.pull_code # 0
       THEN wrp_pc' = "done" /\ wrp_exit' = wrp_host.pull_code
       ELSE wrp_pc' = "run" /\ wrp_exit' = wrp_exit

\* subprocess.run((tool, *arg, *sys.argv[1:])); exit(p.returncode)
WrapperRun ==
    /\ UNCHANGED <<cfg_vars, bld_vars, st_vars, opt_vars, env_vars, cli_vars, map_vars, wrp_host>>
    /\ wrp_pc = "run"
    /\ wrp_log' = Append(wrp_log, "run")
    /\ wrp_pc' = "done"
    /\ wrp_exit' = wrp_host.run_code

\* The script starts on some host.
WrpInit ==
    /\ wrp_host \in Hosts
    /\ wrp_pc = "start"
    /\ wrp_log = <<>>
    /\ wrp_exit = -1

----------------------------------------------------------------------------
(* config.env *)

MaxDate == 2      \* the clock shows a date in 0..MaxDate

\* The configurations env is called with: without the key `repositories`,
\* with no repository, with one.
EnvConfigs == {EmptyDict, [repositories |-> <<>>], [repositories |-> <<"repo">>]}

\* The record env builds in the world as it is: the date, and the commit
\* hashes of the repositories without uncommitted change.
compute(world, config, test) ==
    IF "repositories" \notin DOMAIN config
    THEN [kind |-> "error", exc |-> "KeyError"]
    ELSE IF config.repositories # <<>> /\ world.dirty
    THEN IF test
         THEN [kind |-> "ok", out |-> [date |-> world.date, hashes |-> <<>>]]
         ELSE [kind |-> "error", exc |-> "ValueError"]
    ELSE [kind |-> "ok", out |-> [date |-> world.date, hashes |-> config.repositories]]

\* env(config, test) building the record anew on every call.
env_recomputes(cache, world, config, test) ==
    LET r == compute(world, config, test) IN
    IF r.kind = "error" THEN [ret |-> r, cache |-> cache]
    ELSE [ret |-> r, cache |-> SetItem(cache, "env", r.out)]

\* env(config, test): what it returns or raises, and `_cache` after it.
env(cache, world, config, test) ==
    IF "env" \in DOMAIN cache
    THEN [ret |-> [kind |-> "ok", out |-> cache["env"]], cache |-> cache]
    ELSE LET r == compute(world, config, test) IN
         IF r.kind = "error" THEN [ret |-> r, cache |-> cache]
         ELSE [ret |-> r, cache |-> SetItem(cache, "env", r.out)]

\* env(config, test)
Env ==
    /\ UNCHANGED <<cfg_vars, bld_vars, st_vars, opt_vars, cli_vars, wrp_vars, map_vars, env_world>>
    /\ \E config \in EnvConfigs, test \in BOOLEAN :
         \E r \in {env(env_cache, env_world, config, test)} :
           /\ env_call' = [op |-> "env", config |-> config, test |-> test]
           /\ env_ret' = r.ret
           /\ env_cache' = r.cache

\* Between calls time passes, and the working tree of the repository gets
\* changed or committed.
EnvChange ==
    /\ UNCHANGED <<cfg_vars, bld_vars, st_vars, opt_vars, cli_vars, wrp_vars, map_vars, env_cache>>
    /\ \/ /\ env_world.date < MaxDate
          /\ env_world' = [env_world EXCEPT !.date = @ + 1]
       \/ env_world' = [env_world EXCEPT !.dirty = ~@]
    /\ env_call' = [op |-> "change"]
    /\ env_ret' = [kind |-> "none"]

\* The module is imported: the cache is empty.
EnvInit ==
    /\ env_cache = EmptyDict
    /\ env_world \in [date : {0}, dirty : BOOLEAN]
    /\ env_call = [op |-> "none"]
    /\ env_ret = [kind |-> "none"]

----------------------------------------------------------------------------
(* The parts of the program a specification leaves aside *)

\* No option is being applied.
OptIdle ==
    /\ opt_conf = EmptyDict
    /\ opt_call = [op |-> "none"]
    /\ opt_res = [kind |-> "none"]

\* config.env has not been called.
EnvIdle ==
    /\ env_cache = EmptyDict
    /\ env_world = [date |-> 0, dirty |-> FALSE]
    /\ env_call = [op |-> "none"]
    /\ env_ret = [kind |-> "none"]

\* The command line tool is not run.
CliIdle ==
    /\ cli_call = [op |-> "none"]
    /\ cli_ret = [kind |-> "none"]

\* The container wrapper is not run.
WrpIdle ==
    /\ wrp_host = [tool |-> "none"]
    /\ wrp_pc = "idle"
    /\ wrp_log = <<>>
    /\ wrp_exit = -1

\* No samples are mapped.
MapIdle ==
    /\ map_job = [samples |-> <<>>, workers |-> 1, min |-> 1]
    /\ map_out = <<>>

ExtIdle == OptIdle /\ EnvIdle /\ CliIdle /\ WrpIdle /\ MapIdle

----------------------------------------------------------------------------
(* Specifications *)

\* config.load on its own.
InitConfig == CfgInit /\ BldIdle /\ StIdle /\ ExtIdle
NextConfig == LoadBegin \/ LoadFile \/ LoadEnd
SpecConfig == InitConfig /\ [][NextConfig]_vars

\* config.build on its own.
InitBuild == CfgInit /\ BldInit /\ StIdle /\ ExtIdle
NextBuild == Build
SpecBuild == InitBuild /\ [][NextBuild]_vars

\* The checkpoints of one experiment over a training run.
InitState == CfgInit /\ BldIdle /\ StInit /\ ExtIdle
NextState == Save \/ Load \/ Train
SpecState == InitState /\ [][NextState]_vars

\* Listing and naming the checkpoints an experiment has.
InitList == CfgInit /\ BldIdle /\ ListInit /\ ExtIdle
NextList == List \/ PathEpoch \/ Epoch
SpecList == InitList /\ [][NextList]_vars

\* config.argparse applying one option to a loaded configuration.
InitOptions == CfgInit /\ BldIdle /\ StIdle /\ OptInit /\ EnvIdle /\ CliIdle /\ WrpIdle /\ MapIdle
NextOptions == Argparse
SpecOptions == InitOptions /\ [][NextOptions]_vars

\* Runs of the command line tool.
InitCli == CfgInit /\ BldIdle /\ StIdle /\ OptIdle /\ EnvIdle /\ CliIdle /\ WrpIdle /\ MapIdle
NextCli == Main
SpecCli == InitCli /\ [][NextCli]_vars

\* The workers of one job array, each calling slurm_map on the same samples.
InitShard == CfgInit /\ BldIdle /\ StIdle /\ OptIdle /\ EnvIdle /\ CliIdle /\ WrpIdle /\ MapInit
NextShard == SlurmMapBegin \/ SlurmMapWork \/ SlurmMapReturn
SpecShard == InitShard /\ [][NextShard]_vars

\* One run of the container wrapper.
InitWrapper == CfgInit /\ BldIdle /\ StIdle /\ OptIdle /\ EnvIdle /\ CliIdle /\ WrpInit /\ MapIdle
NextWrapper == WrapperSetup \/ WrapperPull \/ WrapperRun
SpecWrapper == InitWrapper /\ [][NextWrapper]_vars

\* Calls of config.env over the life of the process.
InitEnv == CfgInit /\ BldIdle /\ StIdle /\ OptIdle /\ EnvInit /\ CliIdle /\ WrpIdle /\ MapIdle
NextEnv == Env \/ EnvChange
SpecEnv == InitEnv /\ [][NextEnv]_vars

----------------------------------------------------------------------------
(* Claims about config.load *)

\* A document has just been folded into cfg_out (cfg_last is that document).
Merged == cfg_pc = "loop" /\ Len(cfg_files) > 0

\* load has returned cfg_out after folding in at least one file.
Returned == cfg_pc = "done" /\ Len(cfg_files) > 0

\* The dict body m carries `clear: true`.
HasClearTrue(m) == "clear" \in DOMAIN m /\ m["clear"] = PyBool(TRUE)

\* C1 (as claimed): whatever was at k before, after a document whose value
\* at k is a mapping with `clear: true` is folded in, the value at k is that
\* mapping without its `clear` entry, and holds no `clear` key.
C1_ClearReplacesAndIsConsumed ==
    Merged =>
        \A k \in DOMAIN cfg_last :
            (IsDict(cfg_last[k]) /\ HasClearTrue(cfg_last[k].m)) =>
                /\ cfg_out[k] = PyDict(PopRest(cfg_last[k].m, "clear"))
                /\ "clear" \notin DOMAIN cfg_out[k].m

\* C2: after a document is folded in, every key whose value in that document
\* is not a mapping holds exactly that value, and load returns it unchanged.
C2_NonMappingOverrides ==
    (Merged \/ Returned) =>
        \A k \in DOMAIN cfg_last :
            ~IsDict(cfg_last[k]) => (k \in DOMAIN cfg_out /\ cfg_out[k] = cfg_last[k])

\* C2 witness: a second file carried a number at "a", the merge has acted and
\* load has returned that number at "a".
C2_Witness ==
    /\ Returned
    /\ Len(cfg_files) = 2
    /\ "a" \in DOMAIN cfg_last
    /\ cfg_last["a"] = PyInt(2)
    /\ cfg_out["a"] = PyInt(2)

RECURSIVE Retains(_, _, _)

\* r is o with n folded in by the recursive rule: keys of o absent from n keep
\* their value; a non-mapping of n, or any value of n landing on a non-mapping
\* or on nothing, is taken as it is; two mappings, the incoming one without a
\* `clear` key, are folded the same way one level down.
Retains(o, n, r) ==
    /\ DOMAIN r = DOMAIN o \cup DOMAIN n
    /\ \A j \in DOMAIN o \ DOMAIN n : r[j] = o[j]
    /\ \A j \in DOMAIN n :
        IF ~IsDict(n[j]) \/ ~IsDict(Get(o, j))
        THEN r[j] = n[j]
        ELSE ("clear" \notin DOMAIN n[j].m) =>
                (IsDict(r[j]) /\ Retains(o[j].m, n[j].m, r[j].m))

\* C3: each fold of a document into the accumulator is recursive at every
\* depth: where both sides are mappings and the incoming one has no `clear`
\* key, keys absent from the incoming mapping keep their prior value and keys
\* present are folded by the same rule.
C3_RecursiveMerge ==
    [][(cfg_pc = "loop" /\ cfg_pc' = "loop" /\ cfg_files' # cfg_files) =>
            Retains(cfg_out, cfg_last', cfg_out')]_vars

\* C3 witness: the incoming document's a.x is an empty mapping, and after the
\* fold a.x still holds a key y, kept from the prior value two levels down.
C3_Witness ==
    /\ Merged
    /\ "a" \in DOMAIN cfg_last
    /\ IsDict(cfg_last["a"])
    /\ DOMAIN cfg_last["a"].m = {"x"}
    /\ IsDict(cfg_last["a"].m["x"])
    /\ DOMAIN cfg_last["a"].m["x"].m = {}
    /\ IsDict(cfg_out["a"])
    /\ IsDict(cfg_out["a"].m["x"])
    /\ "y" \in DOMAIN cfg_out["a"].m["x"].m

----------------------------------------------------------------------------
(* Claims about config.build *)

\* The last call of build returned (it did not raise).
Built == bld_res.kind \in {"instance", "partial", "callable"}

\* C9: the arguments build binds are the entry's own `args` as they were at
\* the call, followed by the extra positional arguments in their order, and
\* the entry's own `kwargs` with every extra keyword argument written over
\* the entry of the same name.
C9_ExtrasAppendAndOverride ==
    Built =>
        LET own == IF bld_call.pre.t = "dict" /\ "args" \in DOMAIN bld_call.pre.m
                   THEN bld_call.pre.m["args"] ELSE <<>>
            ownkw == IF bld_call.pre.t = "dict" /\ "kwargs" \in DOMAIN bld_call.pre.m
                     THEN bld_call.pre.m["kwargs"] ELSE <<>>
        IN  /\ Len(bld_res.args) = Len(own) + Len(bld_call.args)
            /\ \A i \in 1..Len(own) : bld_res.args[i] = own[i]
            /\ \A i \in 1..Len(bld_call.args) :
                    bld_res.args[Len(own) + i] = bld_call.args[i]
            /\ DOMAIN bld_res.kwargs = DOMAIN ownkw \cup DOMAIN bld_call.kwargs
            /\ \A k \in DOMAIN bld_call.kwargs : bld_res.kwargs[k] = bld_call.kwargs[k]
            /\ \A k \in DOMAIN ownkw \ DOMAIN bld_call.kwargs :
                    bld_res.kwargs[k] = ownkw[k]

\* C9 witness: an entry with args [1, 2] and kwargs {lr: 1} built with the
\* extra argument 3 and lr=2 binds (1, 2, 3) and lr=2.
C9_Witness ==
    /\ Built
    /\ bld_call.pre.t = "dict"
    /\ "args" \in DOMAIN bld_call.pre.m
    /\ bld_call.pre.m["args"] = <<1, 2>>
    /\ "kwargs" \in DOMAIN bld_call.pre.m
    /\ bld_call.pre.m["kwargs"] = [lr |-> 1]
    /\ bld_call.args = <<3>>
    /\ bld_call.kwargs = [lr |-> 2]
    /\ bld_res.args = <<1, 2, 3>>
    /\ bld_res.kwargs = [lr |-> 2]

\* C10 (as claimed): build leaves the entry it is given unchanged: after
\* every call the entry holds the `args` and `kwargs` it held before it.
C10_BuildLeavesSpecUnchanged ==
    bld_res.kind # "none" => bld_spec = bld_call.pre

----------------------------------------------------------------------------
(* Claims about state.list, state.path and state.epoch *)

\* The configuration of the experiment, as far as paths depend on it.
TheConf == [pad |-> st_pad]

\* The epochs of the checkpoints on disk.
DiskEpochs == {epoch(TheConf, p) : p \in DOMAIN st_disk}

RECURSIVE Ascending(_)
\* The numbers of E in ascending order.
Ascending(E) == IF E = {} THEN <<>> ELSE <<Min(E)>> \o Ascending(E \ {Min(E)})

\* The epochs of the paths list returned.
ListedEpochs == [i \in 1..Len(st_ret.files) |-> epoch(TheConf, st_ret.files[i])]

\* e is within the bounds lo and hi, None disabling a bound.
Within(e, lo, hi) == (lo.t = "none" \/ lo.n <= e) /\ (hi.t = "none" \/ e <= hi.n)

\* The files of the experiment sort by name in the order of their epochs.
NamesInEpochOrder ==
    \A p \in DOMAIN st_disk, q \in DOMAIN st_disk :
        StrLess(p, q) <=> epoch(TheConf, p) < epoch(TheConf, q)

RECURSIVE Greedy(_, _, _)
\* Of the ascending epochs es, those retained when each epoch is retained as
\* soon as it lies at least step past the last one retained (kept so far).
Greedy(es, kept, step) ==
    IF es = <<>> THEN kept
    ELSE IF kept # <<>> /\ Head(es) - kept[Len(kept)] < step
         THEN Greedy(Tail(es), kept, step)
         ELSE Greedy(Tail(es), Append(kept, Head(es)), step)

\* C4 (as claimed): with a filter (min, max, step), list returns the
\* checkpoints within [min, max] retained greedily, each at least step past
\* the last retained one; epochs 0, 5, 10, 15 and (0, 15, 10) give [0, 10].
\* Stated for file names that sort in epoch order.
C4_StepFilterIsGreedy ==
    (/\ st_call.op = "list"
     /\ st_call.filter.t = "tuple"
     /\ Len(st_call.filter.q) = 3
     /\ st_call.filter.q[3].t = "int"
     /\ NamesInEpochOrder
     /\ st_ret.kind = "ok") =>
        ListedEpochs =
            Greedy(Ascending({e \in DiskEpochs :
                        Within(e, st_call.filter.q[1], st_call.filter.q[2])}),
                   <<>>, st_call.filter.q[3].n)

\* C5 (as claimed): with a filter (min, max), a single epoch n (the range
\* n..n) or no filter, list returns exactly the existing checkpoints whose
\* epoch lies within the bounds, in ascending epoch order, whenever there is
\* one, for every set of existing checkpoints.
C5_RangeFilterIsExact ==
    (/\ st_call.op = "list"
     /\ \/ st_call.filter.t \in {"none", "int"}
        \/ st_call.filter.t = "tuple" /\ Len(st_call.filter.q) < 3) =>
        LET lo == IF st_call.filter.t = "tuple" THEN st_call.filter.q[1]
                  ELSE st_call.filter
            hi == IF st_call.filter.t = "tuple"
                  THEN st_call.filter.q[Len(st_call.filter.q)]
                  ELSE st_call.filter
            want == {e \in DiskEpochs : Within(e, lo, hi)}
        IN  want # {} => (st_ret.kind = "ok" /\ ListedEpochs = Ascending(want))

----------------------------------------------------------------------------
(* Claims about state.save and state.load *)

\* C6 (as claimed): with checkpoints on disk, load with `resume` true
\* returns the maximum epoch among them and leaves every component named in
\* the call in the state that checkpoint holds for it.
C6_ResumeRestoresMaxEpoch ==
    (/\ st_call.op = "load"
     /\ st_call.resume = PyBool(TRUE)
     /\ st_disk # <<>>
     /\ st_ret.kind = "ok") =>
        /\ st_ret.epoch = Max(DiskEpochs)
        /\ \A i \in 1..Len(st_call.comps) :
              st_live[st_call.comps[i]] =
                  st_disk[path(TheConf, Max(DiskEpochs))][st_call.comps[i]]

C11_CheckpointsAreImmutable ==
    [][\A p \in DOMAIN st_disk :
          p \in DOMAIN st_disk' /\ st_disk'[p] = st_disk[p]]_vars

\* A step that is a call of load.
LoadStep == st_call'.op = "load"

\* C12: when no checkpoint exists or `resume` is False, load returns epoch 0;
\* with `init` set the components named are restored from the init file, and
\* with `init` not set nothing is read and no component changes.
C12_FreshStartReturnsZero ==
    [][(/\ LoadStep
        /\ st_disk = <<>> \/ st_call'.resume = PyBool(FALSE)) =>
            /\ st_ret'.kind = "ok"
            /\ st_ret'.epoch = 0
            /\ IF Truthy(st_call'.init)
               THEN /\ st_ret'.src = InitPath
                    /\ \A i \in 1..Len(st_call'.comps) :
                          st_live'[st_call'.comps[i]] = InitFileState[st_call'.comps[i]]
               ELSE /\ st_ret'.src = <<>>
                    /\ st_live' = st_live]_vars

\* C12 witness: checkpoints exist, `resume` is False and `init` is set: load
\* has returned 0 and the components hold the init file's state, which is
\* not the state they were constructed with.
C12_Witness ==
    /\ st_call.op = "load"
    /\ st_call.resume = PyBool(FALSE)
    /\ st_call.init = PyStr("init.pt")
    /\ st_disk # <<>>
    /\ st_ret = [kind |-> "ok", epoch |-> 0, src |-> InitPath]
    /\ st_live = InitFileState
    /\ InitFileState # [k \in Components |-> 0]

\* C13: with a checkpoint on disk and `resume` an int n, load reads the path
\* path(conf, n) and nothing else: it restores the components from that file
\* and returns n (also for n = 0); if that file does not exist or lacks a
\* component, load fails, whatever other checkpoints there are.
C13_ResumeIntReadsConstructedPath ==
    [][(/\ LoadStep
        /\ st_call'.resume.t = "int"
        /\ st_disk # <<>>) =>
            LET n == st_call'.resume.n
                p == path(TheConf, n)
                comps == {st_call'.comps[i] : i \in 1..Len(st_call'.comps)}
            IN  IF p \notin DOMAIN st_disk
                THEN /\ st_ret' = [kind |-> "error", exc |-> "FileNotFoundError"]
                     /\ st_live' = st_live
                ELSE IF comps \subseteq DOMAIN st_disk[p]
                THEN /\ st_ret' = [kind |-> "ok", epoch |-> n, src |-> p]
                     /\ \A c \in comps : st_live'[c] = st_disk[p][c]
                ELSE /\ st_ret'.kind = "error"
                     /\ st_ret'.exc = "KeyError"]_vars

\* C13 witness: checkpoints of epochs 0 and 10 exist with different model
\* states, `resume` is 0, and load has returned 0 with the model in the state
\* the checkpoint of epoch 0 holds.
C13_Witness ==
    /\ st_call.op = "load"
    /\ st_call.resume = PyInt(0)
    /\ path(TheConf, 0) \in DOMAIN st_disk
    /\ path(TheConf, 10) \in DOMAIN st_disk
    /\ st_disk[path(TheConf, 0)]["model"] # st_disk[path(TheConf, 10)]["model"]
    /\ st_ret = [kind |-> "ok", epoch |-> 0, src |-> path(TheConf, 0)]
    /\ st_live["model"] = st_disk[path(TheConf, 0)]["model"]

\* C14 (as claimed): whenever `resume` is neither a bool nor an int, load
\* fails with the ValueError of the resume test, whatever checkpoints exist
\* (none included) and whatever `init` is.
C14_BadResumeAlwaysFails ==
    (/\ st_call.op = "load"
     /\ st_call.resume.t \notin {"bool", "int"}) =>
        st_ret = [kind |-> "error", exc |-> "ValueError"]

\* C15: load never returns an epoch when the file it read lacks an entry for
\* a component of the call; it fails with KeyError (a LookupError).
C15_MissingComponentFails ==
    [][LoadStep =>
          /\ (st_ret'.kind = "ok" /\ st_ret'.src # <<>>) =>
                \A i \in 1..Len(st_call'.comps) :
                    st_call'.comps[i] \in DOMAIN Readable(st_disk)[st_ret'.src]
          /\ (/\ st_call'.resume.t = "int"
              /\ path(TheConf, st_call'.resume.n) \in DOMAIN st_disk
              /\ \E i \in 1..Len(st_call'.comps) :
                    st_call'.comps[i] \notin
                        DOMAIN st_disk[path(TheConf, st_call'.resume.n)]) =>
                (st_ret'.kind = "error" /\ st_ret'.exc = "KeyError")]_vars

\* C15 witness: the checkpoint of epoch 0 holds the model only; load with
\* `resume` 0 was asked for model and optimizer and has raised KeyError.
C15_Witness ==
    /\ st_call.op = "load"
    /\ st_call.resume = PyInt(0)
    /\ path(TheConf, 0) \in DOMAIN st_disk
    /\ "optim" \notin DOMAIN st_disk[path(TheConf, 0)]
    /\ st_ret.kind = "error"
    /\ st_ret.exc = "KeyError"
    /\ st_ret.src = path(TheConf, 0)

----------------------------------------------------------------------------
(* Claims about the errors of state.list and state.save *)

\* The bounds an epoch filter sets: a single epoch n is the range n..n.
LowerBound(f) == IF f.t = "tuple" THEN f.q[1] ELSE f
UpperBound(f) == IF f.t = "tuple" THEN (IF Len(f.q) = 1 THEN f.q[1] ELSE f.q[2]) ELSE f

\* C16: list raises FileNotFoundError when the experiment has no checkpoint,
\* and when it has some but none within the bounds of the filter; what it
\* returns is never the empty list.
C16_ListNeverReturnsEmpty ==
    st_call.op = "list" =>
        /\ st_ret.kind = "ok" => st_ret.files # <<>>
        /\ st_disk = <<>> => st_ret = [kind |-> "error", exc |-> "FileNotFoundError"]
        /\ (\A e \in DiskEpochs :
                ~Within(e, LowerBound(st_call.filter), UpperBound(st_call.filter)))
              => st_ret = [kind |-> "error", exc |-> "FileNotFoundError"]

\* C16 witness: checkpoints of epochs 0 and 5 exist, the filter is (12, 15),
\* and list has raised FileNotFoundError.
C16_Witness ==
    /\ st_call.op = "list"
    /\ st_call.filter = [t |-> "tuple", q |-> <<PyInt(12), PyInt(15)>>]
    /\ DiskEpochs = {0, 5}
    /\ st_ret = [kind |-> "error", exc |-> "FileNotFoundError"]

\* C17: save raises ValueError when the epoch is not an int or is negative,
\* forced or not, and then the checkpoints and the folder are as before.
C17_BadEpochWritesNothing ==
    [][(/\ st_call'.op = "save"
        /\ st_call'.epoch.t # "int" \/ st_call'.epoch.n < 0) =>
            /\ st_ret' = [kind |-> "error", exc |-> "ValueError"]
            /\ st_disk' = st_disk
            /\ st_dir' = st_dir]_vars

\* C17 witness: a forced save of epoch -1 on a new experiment has raised
\* ValueError; there is no checkpoint and no folder.
C17_Witness ==
    /\ st_call.op = "save"
    /\ st_call.epoch = PyInt(-1)
    /\ st_call.force
    /\ st_ret = [kind |-> "error", exc |-> "ValueError"]
    /\ st_disk = <<>>
    /\ ~st_dir

----------------------------------------------------------------------------
(* Claims about what config.build returns and raises *)

\* The entry of the last call as build takes it, and the arguments merged.
CallEntry == as_dict(bld_call.pre)
HasArguments ==
    \/ base_args(CallEntry) \o bld_call.args # <<>>
    \/ DOMAIN base_kwargs(CallEntry) \cup DOMAIN bld_call.kwargs # {}

\* C18 (as claimed): build returns an instance when the entity resolved is a
\* class and an instance is asked for; otherwise a partial when there is any
\* merged argument; otherwise the entity itself.
C18_ResultKind ==
    Built =>
        /\ bld_res.f = resolve(CallEntry).id
        /\ bld_res.kind =
              IF resolve(CallEntry).class /\ bld_call.instance THEN "instance"
              ELSE IF HasArguments THEN "partial"
              ELSE "callable"

----------------------------------------------------------------------------
(* Claims about the provenance config.load records *)

\* The stems and the path strings of the files given, in argument order.
FileStems == [i \in 1..Len(cfg_files) |-> PyStr(Stem(cfg_files[i]))]
FileStrings == [i \in 1..Len(cfg_files) |-> PyStr(cfg_files[i])]

\* The merged documents define cache.name.
DefinesName == "cache" \in DOMAIN cfg_out /\ "name" \in DOMAIN cfg_out["cache"].m

\* C20: when load returns, with no file given the result is the merged
\* defaults as they are, no `cache` added; with files given the result is
\* the merged documents with cache.names the stems and cache.files the paths
\* of the files in order, whatever these keys held, and cache.name the first
\* stem unless the merged documents define cache.name, which is kept.
C20_ProvenanceRecorded ==
    [][(cfg_pc = "loop" /\ cfg_pc' = "done") =>
          IF Len(cfg_files) = 0
          THEN cfg_out' = cfg_out
          ELSE /\ DOMAIN cfg_out' = DOMAIN cfg_out \cup {"cache"}
               /\ \A k \in DOMAIN cfg_out \ {"cache"} : cfg_out'[k] = cfg_out[k]
               /\ IsDict(cfg_out'["cache"])
               /\ cfg_out'["cache"].m["names"] = PyList(FileStems)
               /\ cfg_out'["cache"].m["files"] = PyList(FileStrings)
               /\ cfg_out'["cache"].m["name"] =
                     IF DefinesName THEN cfg_out["cache"].m["name"] ELSE FileStems[1]
               /\ DOMAIN cfg_out'["cache"].m =
                     {"name", "names", "files"}
                     \cup (IF "cache" \in DOMAIN cfg_out
                           THEN DOMAIN cfg_out["cache"].m ELSE {})]_vars

\* C20 witness: two files were given, the merged documents defined
\* cache.name 'saved' and the last one cache.names ['old']; load has returned with
\* cache.name 'saved' and cache.names ['one', 'two'].
C20_Witness ==
    /\ cfg_pc = "done"
    /\ Len(cfg_files) = 2
    /\ "cache" \in DOMAIN cfg_last
    /\ IsDict(cfg_last["cache"])
    /\ "names" \in DOMAIN cfg_last["cache"].m
    /\ cfg_out["cache"].m["name"] = PyStr("saved")
    /\ cfg_out["cache"].m["names"] = PyList(<<PyStr("one"), PyStr("two")>>)
    /\ cfg_out["cache"].m["files"] = PyList(<<PyStr("exp/one.json"), PyStr("two.json")>>)

----------------------------------------------------------------------------
(* Claims about config.argparse *)

\* The pieces of the option of the last call, when it has exactly one `=`.
OptWellFormed == opt_call.op = "argparse" /\ Len(Split(opt_call.option, Equals)) = 2
OptKeyPath ==
    LET ks == Split(Split(opt_call.option, Equals)[1], Colon)
    IN  [i \in 1..Len(ks) |-> KeyOf(ks[i])]
OptValueText == Split(opt_call.option, Equals)[2]

RECURSIVE At(_, _)
\* The value found in v by following the keys ks, if there is one.
At(v, ks) ==
    IF ks = <<>> THEN v
    ELSE IF v.t = "dict" /\ ks[1] \in DOMAIN v.m THEN At(v.m[ks[1]], Tail(ks))
    ELSE [t |-> "absent"]

RECURSIVE Put(_, _, _)
\* The mapping d with the key at the end of ks set to v in the mapping the
\* keys before it lead to, and nothing else changed.
Put(d, ks, v) ==
    IF Len(ks) = 1 THEN SetItem(d, ks[1], v)
    ELSE SetItem(d, ks[1], PyDict(Put(d[ks[1]].m, Tail(ks), v)))

\* Every key before the last is present and holds a mapping.
OptDescends ==
    \A i \in 1..(Len(OptKeyPath) - 1) :
        At(PyDict(opt_call.pre), SubSeq(OptKeyPath, 1, i)).t = "dict"

\* C21: a well-formed option `key1:...:keyN=value` whose keys before the last
\* are all present and hold mappings sets keyN in the mapping reached and
\* changes nothing else; when one of them is absent or holds something that is
\* not a mapping, argparse fails with KeyError and the configuration is as it
\* was.
C21_OptionSetsOrKeyError ==
    OptWellFormed =>
        IF OptDescends
        THEN /\ opt_res.kind = "ok"
             /\ \E v \in {At(PyDict(opt_conf), OptKeyPath)} :
                    v.t # "absent" /\ opt_conf = Put(opt_call.pre, OptKeyPath, v)
        ELSE /\ opt_res = [kind |-> "error", exc |-> "KeyError"]
             /\ opt_conf = opt_call.pre

\* C22: the value an option stores is the boolean for the literals `true` and
\* `false`; otherwise the integer when the text parses as one; otherwise the
\* float when it parses as one; otherwise the text itself, as a string.
C22_ValueCoercionOrder ==
    (OptWellFormed /\ opt_res.kind = "ok") =>
        \E v \in {At(PyDict(opt_conf), OptKeyPath)} :
            IF OptValueText = TrueText THEN v = PyBool(TRUE)
            ELSE IF OptValueText = FalseText THEN v = PyBool(FALSE)
            ELSE IF int_parses(OptValueText)
                 THEN v.t = "int" /\ v.n = int_of(OptValueText)
            ELSE IF float_parses(OptValueText)
                 THEN v.t = "float" /\ v = float_of(OptValueText)
            ELSE v.t = "str" /\ v.s = OptValueText

\* An option two keys deep was stored whose text, `10`, parses both as an
\* integer and as a float.
C22_Witness ==
    /\ OptWellFormed /\ opt_res.kind = "ok"
    /\ Len(OptKeyPath) = 2
    /\ int_parses(OptValueText) /\ float_parses(OptValueText)
    /\ At(PyDict(opt_conf), OptKeyPath) = PyInt(10)

----------------------------------------------------------------------------
(* Claims about the documents config.load reads *)

\* C23: when what json.load gives for the defaults or for a file, at any
\* position among the files, is not an object, load has raised ValueError and
\* returns nothing; what it returns was merged from objects only.
C23_NonObjectDocumentFails ==
    /\ (cfg_read # NoneV /\ ~IsDict(cfg_read)) =>
            (cfg_pc = "error" /\ cfg_exc = "ValueError")
    /\ cfg_pc = "done" => (IsDict(cfg_read) /\ cfg_exc = "none")
    /\ cfg_pc = "error" => ~ENABLED NextConfig

\* The second of two files holds a string: load has raised after the defaults
\* and the first file were merged.
C23_Witness ==
    /\ Len(cfg_files) = 2
    /\ cfg_read = PyStr("this is a string")
    /\ cfg_pc = "error"
    /\ cfg_out # EmptyDict

----------------------------------------------------------------------------
(* Claims about state.epoch on paths the pattern does not match *)

\* C24: epoch returns an epoch only for a path the configured pattern matches,
\* and then the integer of the digits the group `epoch` captures; for a path
\* the pattern does not match it fails with a LookupError or a parse error.
C24_NoMatchIsLookupError ==
    st_call.op = "epoch" =>
        IF RegexMatches(st_call.path)
        THEN st_ret = [kind |-> "ok", epoch |-> ParseInt(RegexEpoch(st_call.path))]
        ELSE st_ret.kind = "error" /\ st_ret.exc \in {"KeyError", "IndexError", "ValueError"}

----------------------------------------------------------------------------
(* Claims about the command line tool *)

\* The last run asked for no output path, or gave no input image.
NoOutputOrNoImage ==
    /\ cli_call.op = "main"
    /\ \/ out_paths(cli_call.argv) = {}
       \/ \A i \in 1..Len(cli_call.argv) : cli_call.argv[i] # "image"

\* The last run printed the usage message, on either stream.
UsageShown == "usage" \in (cli_ret.out \cup cli_ret.err)

\* C25 as stated: a run that asks for no output path or gives no input image,
\* a run without any argument included, exits with a nonzero status and a
\* usage message, loads no model and writes no output.
C25_UsageAndNonzeroExit ==
    NoOutputOrNoImage =>
        /\ cli_ret.status # 0
        /\ UsageShown
        /\ ~cli_ret.model
        /\ cli_ret.written = {}

\* C25 amended: with BABYSEG_HOME set and neither -h nor -V given, a run that
\* asks for no output path or gives no input image loads no model and writes
\* no output; without any argument it prints the usage message and exits with
\* status 0; with arguments it exits with a nonzero status and an error
\* message, which comes with the usage message when the input image is
\* missing.
C25_NoModelNoOutput ==
    (/\ NoOutputOrNoImage
     /\ cli_call.home
     /\ \A i \in 1..Len(cli_call.argv) : cli_call.argv[i] \notin {"-h", "-V"}) =>
        /\ ~cli_ret.model
        /\ cli_ret.written = {}
        /\ IF Len(cli_call.argv) = 0
           THEN cli_ret.status = 0 /\ "usage" \in cli_ret.out
           ELSE /\ cli_ret.status # 0
                /\ "error" \in cli_ret.err
                /\ (\A i \in 1..Len(cli_call.argv) : cli_call.argv[i] # "image")
                        => "usage" \in cli_ret.err

\* A run with an input image and no output path: the configuration was
\* loaded, then the run ended with status 1 and an error message.
C25_Witness ==
    /\ cli_call.op = "main" /\ cli_call.home
    /\ cli_call.argv = <<"image", "-g">>
    /\ cli_ret.config /\ ~cli_ret.model
    /\ cli_ret.status = 1
    /\ ~UsageShown

----------------------------------------------------------------------------
(* Claims about data.slurm_map *)

\* The positions, counted from 1, of the samples worker id is to process.
ShardPositions(id) ==
    {i \in 1..Len(map_job.samples) : (i - 1) % map_job.workers = id - 1}

\* The results of the samples at the positions P, in sample order.
ResultsInOrder(P) ==
    LET nth(k) == CHOOSE i \in P : Cardinality({j \in P : j < i}) = k - 1
    IN  [k \in 1..Cardinality(P) |-> work(map_job.samples[nth(k)])]

\* The workers that processed the sample at position i.
Processors(i) ==
    {id \in DOMAIN map_out :
        \E k \in 1..Len(map_out[id].results) :
            map_out[id].results[k] = work(map_job.samples[i])}

\* C26: with worker ids 1..N, what a worker has processed so far is the start
\* of its shard, the samples at index = id - 1 modulo N in sample order, and
\* what it returns is the results of the whole shard in that order; once all N
\* workers have returned, every sample was processed by exactly one worker.
C26_ShardsPartitionSamples ==
    map_job.min = 1 =>
        /\ \A id \in DOMAIN map_out :
             LET all == ResultsInOrder(ShardPositions(id))
                 got == map_out[id].results
             IN  /\ Len(got) <= Len(all)
                 /\ got = SubSeq(all, 1, Len(got))
                 /\ map_out[id].pc = "done" => got = all
        /\ (\A id \in WorkerIds : id \in DOMAIN map_out /\ map_out[id].pc = "done") =>
             \A i \in 1..Len(map_job.samples) :
                 \E id \in WorkerIds : Processors(i) = {id} /\ (i - 1) % map_job.workers = id - 1

\* Three workers have returned from four samples: the first holds two results.
C26_Witness ==
    /\ map_job.min = 1 /\ map_job.workers = 3 /\ Len(map_job.samples) = 4
    /\ \A id \in 1..3 : id \in DOMAIN map_out /\ map_out[id].pc = "done"
    /\ Len(map_out[1].results) = 2
    /\ map_out[1].results[2] = work(map_job.samples[4])

----------------------------------------------------------------------------
(* Claims about the container wrapper *)

\* The calls of the tool the claim expects on the host: pull then run when the
\* SIF file is absent, run alone when it is present, and no run after a pull
\* that fails.
ExpectedCalls ==
    IF wrp_host.sif_file THEN <<"run">>
    ELSE IF wrp_host.pull_code # 0 THEN <<"pull">>
    ELSE <<"pull", "run">>

\* The calls made so far are the start of the expected calls, all of them when
\* the script has ended, and a failed pull gives the exit code.
CallsAsExpected ==
    /\ Len(wrp_log) <= Len(ExpectedCalls)
    /\ wrp_log = SubSeq(ExpectedCalls, 1, Len(wrp_log))
    /\ wrp_pc = "done" =>
         /\ wrp_log = ExpectedCalls
         /\ (~wrp_host.sif_file /\ wrp_host.pull_code # 0) => wrp_exit = wrp_host.pull_code

\* C27 as stated: with apptainer or singularity the wrapper calls pull, then
\* run, exactly when the SIF file is absent, and run alone when it is present;
\* after a pull that fails it never calls run and exits with the pull's code.
C27_PullThenRunIffAbsent ==
    wrp_host.tool \in {"apptainer", "singularity"} => CallsAsExpected

\* C27 amended: the same, provided the SIF folder is a directory.
C27_PullThenRunIffAbsentInFolder ==
    (wrp_host.tool \in {"apptainer", "singularity"} /\ wrp_host.sif_dir) => CallsAsExpected

\* The SIF file was absent from its folder: apptainer pulled it, then ran.
C27_Witness ==
    /\ wrp_host.tool = "apptainer" /\ wrp_host.sif_dir /\ ~wrp_host.sif_file
    /\ wrp_pc = "done"
    /\ wrp_log = <<"pull", "run">>
    /\ wrp_exit = wrp_host.run_code

----------------------------------------------------------------------------
(* Claims about what a checkpoint gives back *)

\* The names in the sequence of components comps.
Names(comps) == {comps[i] : i \in 1..Len(comps)}

\* C28: a load with `resume` = e for the components the checkpoint of epoch e
\* was last saved with returns e and leaves each of them in the state it had
\* at that save, whatever state they are in before the load.
C28_CheckpointRoundTrip ==
    [][(/\ LoadStep
        /\ st_call'.resume.t = "int"
        /\ path(TheConf, st_call'.resume.n) \in DOMAIN st_saved
        /\ Names(st_call'.comps) = DOMAIN st_saved[path(TheConf, st_call'.resume.n)]) =>
            /\ st_ret'.kind = "ok"
            /\ st_ret'.epoch = st_call'.resume.n
            /\ \A k \in Names(st_call'.comps) :
                   st_live'[k] = st_saved[path(TheConf, st_call'.resume.n)][k]]_vars

\* The checkpoint of epoch 7, which only a forced save writes, was saved with
\* both components as constructed; another checkpoint holds the model in
\* another state; load with `resume` 7 has returned 7 and both components are
\* as constructed again.
C28_Witness ==
    /\ st_call.op = "load"
    /\ st_call.resume = PyInt(7)
    /\ st_ret = [kind |-> "ok", epoch |-> 7, src |-> path(TheConf, 7)]
    /\ path(TheConf, 7) \in DOMAIN st_saved
    /\ st_saved[path(TheConf, 7)] = [k \in Components |-> 0]
    /\ path(TheConf, 10) \in DOMAIN st_saved
    /\ st_saved[path(TheConf, 10)]["model"] = 1
    /\ st_live = [k \in Components |-> 0]

\* The first of the components of the call that the file has no entry for
\* (one past the last when it has them all).
FirstMissing(comps, state) ==
    Min({i \in 1..Len(comps) : comps[i] \notin DOMAIN state} \cup {Len(comps) + 1})

\* C29: when the file load reads lacks the entry of the k-th component of the
\* call, load fails with the components before the k-th restored from the
\* file and the k-th and all later ones as they were.
C29_RestoreIsPartial ==
    [][(/\ LoadStep
        /\ "src" \in DOMAIN st_ret'
        /\ st_ret'.src # <<>>
        /\ FirstMissing(st_call'.comps, Readable(st_disk)[st_ret'.src])
                <= Len(st_call'.comps)) =>
            LET state == Readable(st_disk)[st_ret'.src]
                comps == st_call'.comps
                k == FirstMissing(comps, state)
            IN  /\ st_ret'.kind = "error"
                /\ \A i \in 1..(k - 1) : st_live'[comps[i]] = state[comps[i]]
                /\ \A i \in k..Len(comps) : st_live'[comps[i]] = st_live[comps[i]]]_vars

\* The checkpoint of epoch 0 holds the model only, in a state other than the
\* optimizer's: load for model and optimizer, in this order, has raised
\* KeyError with the model restored and the optimizer as it was.
C29_Witness ==
    /\ st_call.op = "load"
    /\ st_call.comps = <<"model", "optim">>
    /\ st_ret = [kind |-> "error", exc |-> "KeyError", src |-> path(TheConf, 0)]
    /\ DOMAIN st_disk[path(TheConf, 0)] = {"env", "model"}
    /\ st_disk[path(TheConf, 0)]["model"] = 1
    /\ st_live = [model |-> 1, optim |-> 0]

----------------------------------------------------------------------------
(* Claims about config.env *)

\* A step that is a call of env.
EnvStep == env_call'.op = "env"

\* C30: once a call of env has completed, every later call returns the record
\* of that call, whatever its arguments and whatever the world has become,
\* and the cache holds it for good; with the cache empty, a call that
\* completes returns a record of the world as it is and caches it, and a call
\* that fails leaves the cache empty.
C30_EnvCachesFirstSuccess ==
    [][/\ "env" \in DOMAIN env_cache => env_cache' = env_cache
       /\ EnvStep =>
            IF "env" \in DOMAIN env_cache
            THEN env_ret' = [kind |-> "ok", out |-> env_cache["env"]]
            ELSE IF env_ret'.kind = "ok"
            THEN /\ env_ret'.out.date = env_world.date
                 /\ env_cache' = [env |-> env_ret'.out]
            ELSE env_cache' = EmptyDict]_vars

\* The record was built at date 0, in test mode, with uncommitted change; at
\* date 2, the change still uncommitted, a call with test = false has returned
\* that record.
C30_Witness ==
    /\ env_call.op = "env" /\ ~env_call.test
    /\ env_call.config = [repositories |-> <<"repo">>]
    /\ env_world = [date |-> 2, dirty |-> TRUE]
    /\ env_ret = [kind |-> "ok", out |-> [date |-> 0, hashes |-> <<>>]]
    /\ env_cache = [env |-> [date |-> 0, hashes |-> <<>>]]

====
